---- MODULE Spec2Model ----
(***************************************************************************)
(* Model of the Thorcam acquisition layer:                                 *)
(*   - ImageAcquisitionThread (src/ini_camera.py): the polling loop that   *)
(*     converts frames and publishes them to a bounded queue,              *)
(*   - ThorlabsCameraHandler / Camera (src/ini_camera.py),                 *)
(*   - ConfigurationManager (src/com.py): the JSON backed settings store   *)
(*     and its file watcher thread.                                        *)
(***************************************************************************)
EXTENDS Integers, Sequences, FiniteSets, TLC

\* Number of frames the camera delivers in a run (frames are numbered 1..MaxFrames).
MaxFrames == 6

\* queue.Queue(maxsize=2): the queue the thread creates when none is supplied.
InternalMaxsize == 2

\* maxsize values of an externally supplied queue (0 is Python's "unbounded").
SharedMaxsizes == {0, 1, 3}

VARIABLES
    \* ---- ImageAcquisitionThread ----
    tpc,            \* position of the thread: "new" before start(), then inside run()
    stop_event,     \* self._stop_event
    nr,             \* local counter nr of run()
    frame,          \* local frame of run() (0 = None)
    pil_image,      \* local pil_image of run()
    image_queue,    \* self._image_queue contents (a FIFO)
    maxsize,        \* maxsize of self._image_queue
    shared_queue,   \* TRUE when the queue was supplied by the caller
    signal,         \* TRUE when a signal object was supplied (self._signal != None)
    is_color,       \* self._is_color
    processor,      \* self._mono_to_color_processor: "none", "live", "disposed"
    color_sdk,      \* self._mono_to_color_sdk: "none", "live", "disposed"
    \* ---- environment and history of the acquisition run ----
    polled,         \* number of frames the camera has handed out
    log,            \* history of enqueue attempts and emit calls
    consumed,       \* images taken out of the queue, in order, each with its reader
    exitCause,      \* why the loop was left: "none", "stop", "error"
    jpc,            \* a caller's join(): "none", "joining", "joined"
    pollsAfterStop, \* polls made after stop() was called
    \* ---- ThorlabsCameraHandler and its Camera ----
    h_pc,           \* the caller's position: "new" before __init__, "idle", or inside a join()
    handler,        \* the handler object's attributes (a record)
    threads,        \* every ImageAcquisitionThread object created: its life-cycle state
    stop_set,       \* the thread objects whose stop event is set
    camera_present, \* TRUE while discover_available_cameras() finds a camera
    \* ---- ConfigurationManager, its file and its watcher thread ----
    s_pc,           \* the caller: "new" before __init__, "ready", "saving", "joining", "joined", "failed"
    cfile,          \* the file at config_file_path: [exists, text]
    config,         \* self.config: a dict, kept in insertion order
    w_pc,           \* position of the fileWatcher thread ("none": no watcher)
    comandosText,   \* local comandosText of fileWatcher
    file_change,    \* self.file_change
    w_stop,         \* self.stop_event
    loaded,         \* what the caller's last load_config() call returned
    saved,          \* history: the map written by the last completed save_config()
    set_log,        \* history: last value given to each key by set()
    detected,       \* history: the watcher saw a change in its current cycle
    edits,          \* number of writes to the file made by other programs
    sets            \* number of set() calls made

acqVars == <<tpc, stop_event, nr, frame, pil_image, image_queue, maxsize, shared_queue,
             signal, is_color, processor, color_sdk, polled, log, consumed, exitCause,
             jpc, pollsAfterStop>>

handlerVars == <<h_pc, handler, threads, stop_set, camera_present>>

storeVars == <<s_pc, cfile, config, w_pc, comandosText, file_change, w_stop, loaded,
               saved, set_log, detected, edits, sets>>

vars == <<acqVars, handlerVars, storeVars>>

\* the components a step of the acquisition thread leaves alone
AcqOthers == <<handlerVars, storeVars>>

\* the components a step of the handler leaves alone
HandlerOthers == <<acqVars, storeVars>>

\* the components a step of the settings store leaves alone
StoreOthers == <<acqVars, handlerVars>>

NoImage == [f |-> 0, mode |-> "none"]

\* ImageAcquisitionThread.__init__
AcqInit ==
    /\ tpc = "new"
    /\ stop_event = FALSE
    /\ nr = 0
    /\ frame = 0
    /\ pil_image = NoImage
    /\ image_queue = <<>>
    /\ shared_queue \in BOOLEAN
    /\ maxsize \in (IF shared_queue THEN SharedMaxsizes ELSE {InternalMaxsize})
    /\ signal \in BOOLEAN
    /\ is_color \in BOOLEAN
    /\ processor = (IF is_color THEN "live" ELSE "none")
    /\ color_sdk = (IF is_color THEN "live" ELSE "none")
    /\ polled = 0
    /\ log = <<>>
    /\ consumed = <<>>
    /\ exitCause = "none"
    /\ jpc = "none"
    /\ pollsAfterStop = 0

\* a loop that does not look at the stop event
LoopConditionAlways == TRUE

\* while not self._stop_event.is_set()
LoopCondition == ~stop_event

\* a put that never reports a full queue
QueueFullNever(q, m) == FALSE

\* queue.Full is raised by put_nowait when the queue holds maxsize items (maxsize > 0)
QueueFull(q, m) == m > 0 /\ Len(q) >= m

\* a notification on every first frame
PairReadyFirst(n) == n = 1

\* if nr == 2
PairReady(n) == n = 2

\* a loop exit that returns without the dispose calls
ExitPcNoDispose == "done"

\* where control goes when the loop is left: the dispose calls exist only for colour
ExitPc == IF is_color THEN "dispose_proc" ELSE "done"

\* threading.Thread.start()
Start ==
    /\ tpc = "new"
    /\ tpc' = "check"
    /\ UNCHANGED <<stop_event, nr, frame, pil_image, image_queue, maxsize, shared_queue,
                   signal, is_color, processor, color_sdk, polled, log, consumed,
                   exitCause, jpc, pollsAfterStop>>
    /\ UNCHANGED AcqOthers

\* the while condition: leave the loop when the stop event is set
LoopCheck ==
    /\ tpc = "check"
    /\ IF LoopCondition
       THEN tpc' = "poll" /\ exitCause' = exitCause
       ELSE tpc' = ExitPc /\ exitCause' = "stop"
    /\ UNCHANGED <<stop_event, nr, frame, pil_image, image_queue, maxsize, shared_queue,
                   signal, is_color, processor, color_sdk, polled, log, consumed,
                   jpc, pollsAfterStop>>
    /\ UNCHANGED AcqOthers

CountPoll == IF stop_event /\ pollsAfterStop < 2 THEN pollsAfterStop + 1 ELSE pollsAfterStop

\* frame = get_pending_frame_or_null() returns a frame; nr += 1
PollFrame ==
    /\ tpc = "poll"
    /\ polled < MaxFrames
    /\ polled' = polled + 1
    /\ frame' = polled + 1
    /\ nr' = nr + 1
    /\ tpc' = "convert"
    /\ pollsAfterStop' = CountPoll
    /\ UNCHANGED <<stop_event, pil_image, image_queue, maxsize, shared_queue, signal,
                   is_color, processor, color_sdk, log, consumed, exitCause, jpc>>
    /\ UNCHANGED AcqOthers

\* get_pending_frame_or_null() returns None: next iteration
PollNone ==
    /\ tpc = "poll"
    /\ frame' = 0
    /\ tpc' = "check"
    /\ pollsAfterStop' = CountPoll
    /\ UNCHANGED <<stop_event, nr, pil_image, image_queue, maxsize, shared_queue, signal,
                   is_color, processor, color_sdk, polled, log, consumed, exitCause, jpc>>
    /\ UNCHANGED AcqOthers

\* get_pending_frame_or_null() raises: except Exception -> break
PollError ==
    /\ tpc = "poll"
    /\ tpc' = ExitPc
    /\ exitCause' = "error"
    /\ pollsAfterStop' = CountPoll
    /\ UNCHANGED <<stop_event, nr, frame, pil_image, image_queue, maxsize, shared_queue,
                   signal, is_color, processor, color_sdk, polled, log, consumed, jpc>>
    /\ UNCHANGED AcqOthers

\* _get_color_image / _get_image
ConvertOk ==
    /\ tpc = "convert"
    /\ pil_image' = [f |-> frame, mode |-> IF is_color THEN "RGB" ELSE "L"]
    /\ tpc' = "put"
    /\ UNCHANGED <<stop_event, nr, frame, image_queue, maxsize, shared_queue, signal,
                   is_color, processor, color_sdk, polled, log, consumed, exitCause,
                   jpc, pollsAfterStop>>
    /\ UNCHANGED AcqOthers

\* a conversion error that is reported and followed by the next iteration
ConvertErrorRetry ==
    /\ tpc = "convert"
    /\ tpc' = "check"
    /\ exitCause' = "error"
    /\ UNCHANGED <<stop_event, nr, frame, pil_image, image_queue, maxsize, shared_queue,
                   signal, is_color, processor, color_sdk, polled, log, consumed,
                   jpc, pollsAfterStop>>
    /\ UNCHANGED AcqOthers

\* the conversion raises: except Exception -> break
ConvertError ==
    /\ tpc = "convert"
    /\ tpc' = ExitPc
    /\ exitCause' = "error"
    /\ UNCHANGED <<stop_event, nr, frame, pil_image, image_queue, maxsize, shared_queue,
                   signal, is_color, processor, color_sdk, polled, log, consumed,
                   jpc, pollsAfterStop>>
    /\ UNCHANGED AcqOthers

\* put_nowait succeeds; then "if nr == 2" (with no signal the counter is reset at once)
PutOk ==
    /\ tpc = "put"
    /\ ~QueueFull(image_queue, maxsize)
    /\ image_queue' = Append(image_queue, pil_image)
    /\ log' = Append(log, [ev |-> "enq", f |-> pil_image.f])
    /\ IF PairReady(nr)
       THEN IF signal
            THEN tpc' = "emit" /\ nr' = nr
            ELSE tpc' = "check" /\ nr' = 0
       ELSE tpc' = "check" /\ nr' = nr
    /\ UNCHANGED <<stop_event, frame, pil_image, maxsize, shared_queue, signal, is_color,
                   processor, color_sdk, polled, consumed, exitCause, jpc, pollsAfterStop>>
    /\ UNCHANGED AcqOthers

\* a full queue handled by evicting the oldest image to make room
PutFullEvict ==
    /\ tpc = "put"
    /\ QueueFull(image_queue, maxsize)
    /\ nr' = 0
    /\ image_queue' = Append(Tail(image_queue), pil_image)
    /\ log' = Append(log, [ev |-> "drop", f |-> pil_image.f])
    /\ tpc' = "check"
    /\ UNCHANGED <<stop_event, frame, pil_image, maxsize, shared_queue,
                   signal, is_color, processor, color_sdk, polled, consumed, exitCause,
                   jpc, pollsAfterStop>>
    /\ UNCHANGED AcqOthers

\* a full queue handled without resetting the counter
PutFullNoReset ==
    /\ tpc = "put"
    /\ QueueFull(image_queue, maxsize)
    /\ log' = Append(log, [ev |-> "drop", f |-> pil_image.f])
    /\ tpc' = "check"
    /\ UNCHANGED <<stop_event, nr, frame, pil_image, image_queue, maxsize, shared_queue,
                   signal, is_color, processor, color_sdk, polled, consumed, exitCause,
                   jpc, pollsAfterStop>>
    /\ UNCHANGED AcqOthers

\* put_nowait raises queue.Full: except queue.Full -> nr = 0
PutFull ==
    /\ tpc = "put"
    /\ QueueFull(image_queue, maxsize)
    /\ nr' = 0
    /\ log' = Append(log, [ev |-> "drop", f |-> pil_image.f])
    /\ tpc' = "check"
    /\ UNCHANGED <<stop_event, frame, pil_image, image_queue, maxsize, shared_queue,
                   signal, is_color, processor, color_sdk, polled, consumed, exitCause,
                   jpc, pollsAfterStop>>
    /\ UNCHANGED AcqOthers

\* self._signal.new_image.emit(True) returns; nr = 0
EmitOk ==
    /\ tpc = "emit"
    /\ log' = Append(log, [ev |-> "emit", f |-> pil_image.f])
    /\ nr' = 0
    /\ tpc' = "check"
    /\ UNCHANGED <<stop_event, frame, pil_image, image_queue, maxsize, shared_queue,
                   signal, is_color, processor, color_sdk, polled, consumed, exitCause,
                   jpc, pollsAfterStop>>
    /\ UNCHANGED AcqOthers

\* self._signal.new_image.emit(True) is called and raises: except Exception -> break
EmitError ==
    /\ tpc = "emit"
    /\ log' = Append(log, [ev |-> "emit", f |-> pil_image.f])
    /\ tpc' = ExitPc
    /\ exitCause' = "error"
    /\ UNCHANGED <<stop_event, nr, frame, pil_image, image_queue, maxsize, shared_queue,
                   signal, is_color, processor, color_sdk, polled, consumed,
                   jpc, pollsAfterStop>>
    /\ UNCHANGED AcqOthers

\* self._mono_to_color_processor.dispose()
DisposeProcessor ==
    /\ tpc = "dispose_proc"
    /\ processor' = "disposed"
    /\ tpc' = "dispose_sdk"
    /\ UNCHANGED <<stop_event, nr, frame, pil_image, image_queue, maxsize, shared_queue,
                   signal, is_color, color_sdk, polled, log, consumed, exitCause,
                   jpc, pollsAfterStop>>
    /\ UNCHANGED AcqOthers

\* self._mono_to_color_sdk.dispose(); run() returns
DisposeSdk ==
    /\ tpc = "dispose_sdk"
    /\ color_sdk' = "disposed"
    /\ tpc' = "done"
    /\ UNCHANGED <<stop_event, nr, frame, pil_image, image_queue, maxsize, shared_queue,
                   signal, is_color, processor, polled, log, consumed, exitCause,
                   jpc, pollsAfterStop>>
    /\ UNCHANGED AcqOthers

\* ImageAcquisitionThread.stop(), called from any other thread
Stop ==
    /\ stop_event' = TRUE
    /\ UNCHANGED <<tpc, nr, frame, pil_image, image_queue, maxsize, shared_queue, signal,
                   is_color, processor, color_sdk, polled, log, consumed, exitCause,
                   jpc, pollsAfterStop>>
    /\ UNCHANGED AcqOthers

\* a caller enters Thread.join() (a thread that was never started cannot be joined)
JoinCall ==
    /\ jpc = "none"
    /\ tpc # "new"
    /\ jpc' = "joining"
    /\ UNCHANGED <<tpc, stop_event, nr, frame, pil_image, image_queue, maxsize,
                   shared_queue, signal, is_color, processor, color_sdk, polled, log,
                   consumed, exitCause, pollsAfterStop>>
    /\ UNCHANGED AcqOthers

\* Thread.join() returns once run() has returned
JoinReturn ==
    /\ jpc = "joining"
    /\ tpc = "done"
    /\ jpc' = "joined"
    /\ UNCHANGED <<tpc, stop_event, nr, frame, pil_image, image_queue, maxsize,
                   shared_queue, signal, is_color, processor, color_sdk, polled, log,
                   consumed, exitCause, pollsAfterStop>>
    /\ UNCHANGED AcqOthers

\* the threads that read from get_output_queue()
Readers == {"r1", "r2"}

\* what reader r holds after a get: the image, and who took it
Taken(img, r) == [f |-> img.f, mode |-> img.mode, by |-> r]

\* a get that hands out the oldest image and leaves it in the queue
ConsumerGetNoRemove ==
    /\ image_queue # <<>>
    /\ Len(consumed) < MaxFrames
    /\ \E r \in Readers : consumed' = Append(consumed, Taken(Head(image_queue), r))
    /\ UNCHANGED <<tpc, stop_event, nr, frame, pil_image, image_queue, maxsize,
                   shared_queue, signal, is_color, processor, color_sdk, polled, log,
                   exitCause, jpc, pollsAfterStop>>
    /\ UNCHANGED AcqOthers

\* one of the readers takes the oldest image from get_output_queue() (Queue.get
\* removes and returns it under the queue's mutex)
ConsumerGet ==
    /\ image_queue # <<>>
    /\ \E r \in Readers : consumed' = Append(consumed, Taken(Head(image_queue), r))
    /\ image_queue' = Tail(image_queue)
    /\ UNCHANGED <<tpc, stop_event, nr, frame, pil_image, maxsize, shared_queue, signal,
                   is_color, processor, color_sdk, polled, log, exitCause, jpc,
                   pollsAfterStop>>
    /\ UNCHANGED AcqOthers

\* one step of run()
ThreadStep ==
    \/ LoopCheck
    \/ PollFrame
    \/ PollNone
    \/ PollError
    \/ ConvertOk
    \/ ConvertError
    \/ PutOk
    \/ PutFull
    \/ EmitOk
    \/ EmitError
    \/ DisposeProcessor
    \/ DisposeSdk

\* images the notified consumer may still take: two for every notification emitted
Owed == 2 * Cardinality({i \in 1..Len(log) : log[i].ev = "emit"}) - Len(consumed)

\* a consumer that reads only when notified: one get of the two it makes for every
\* "pair ready" notification
PairConsumerGet ==
    /\ Owed > 0
    /\ image_queue # <<>>
    /\ consumed' = Append(consumed, Taken(Head(image_queue), "r1"))
    /\ image_queue' = Tail(image_queue)
    /\ UNCHANGED <<tpc, stop_event, nr, frame, pil_image, maxsize, shared_queue, signal,
                   is_color, processor, color_sdk, polled, log, exitCause, jpc,
                   pollsAfterStop>>
    /\ UNCHANGED AcqOthers

(***************************************************************************)
(* ThorlabsCameraHandler and Camera                                        *)
(***************************************************************************)

\* Number of ImageAcquisitionThread objects a run may create.
MaxThreads == 3

ThreadIds == 1..MaxThreads

\* the handler before __init__ has run; op is the method called last and tick changes
\* with every call (both are history, the code has no such attributes)
NoHandler ==
    [connected |-> FALSE, is_alive |-> FALSE, camera |-> "unset", thread |-> 0,
     shared |-> FALSE, queue |-> 0, init_result |-> "none", surfaced |-> "none",
     raised |-> "none", op |-> "none", tick |-> FALSE]

\* the state before ThorlabsCameraHandler(...) is called
HandlerInit ==
    /\ h_pc = "new"
    /\ handler = NoHandler
    /\ threads = [t \in ThreadIds |-> "unborn"]
    /\ stop_set = {}
    /\ camera_present \in BOOLEAN

\* the ways Camera.initialize_camera and the thread's constructor can end
InitOutcomes == {"ok", "not_found", "error", "thread_error"}

\* which outcomes the environment allows: CameraNotFoundError exactly when discovery
\* returns an empty list; any SDK or settings call may raise another exception
OutcomePossible(o) ==
    CASE o = "not_found" -> ~camera_present
      [] o = "error" -> TRUE
      [] o = "ok" -> camera_present /\ \E t \in ThreadIds : threads[t] = "unborn"
      [] o = "thread_error" -> camera_present

FreshThread(ths) == CHOOSE t \in ThreadIds : ths[t] = "unborn" /\ \A u \in ThreadIds : ths[u] = "unborn" => t <= u

\* Camera.initialize_camera hands no error to its caller: both except clauses
\* catch, print and return
SurfacedError(o) == "none"

\* ThorlabsCameraHandler.initialize_camera, with Camera.__init__ and
\* Camera.initialize_camera, for outcome o; hs = [h |-> handler, t |-> threads]
InitializeCamera(hs, o) ==
    LET h == [hs.h EXCEPT !.init_result = o, !.surfaced = SurfacedError(o)]
    IN  CASE o = "not_found" ->
               [h |-> [h EXCEPT !.connected = FALSE, !.camera = "none_camera"], t |-> hs.t]
          [] o = "error" ->
               [h |-> [h EXCEPT !.connected = FALSE, !.camera = "no_attr"], t |-> hs.t]
          [] o = "thread_error" ->
               [h |-> [h EXCEPT !.connected = TRUE, !.camera = "None"], t |-> hs.t]
          [] o = "ok" ->
               [h |-> [h EXCEPT !.connected = TRUE, !.camera = "armed",
                                !.thread = FreshThread(hs.t)],
                t |-> [hs.t EXCEPT ![FreshThread(hs.t)] = "new"]]

\* ThorlabsCameraHandler.activate_camera_instance: is_alive = True, then
\* image_acquisition_thread.start()
ActivateCameraInstance(hs) ==
    LET h == [hs.h EXCEPT !.is_alive = TRUE]
    IN  IF h.thread = 0
        THEN [h |-> [h EXCEPT !.raised = "AttributeError"], t |-> hs.t]
        ELSE IF hs.t[h.thread] = "new"
             THEN [h |-> h, t |-> [hs.t EXCEPT ![h.thread] = "running"]]
             ELSE [h |-> [h EXCEPT !.raised = "RuntimeError"], t |-> hs.t]

\* self._camera.dispose(): Camera.dispose disarms and disposes the camera and the SDK;
\* again is TRUE when the SDK accepts a second dispose of the same camera
CameraDispose(h, again) ==
    CASE h.camera = "armed" -> [h EXCEPT !.camera = "disposed"]
      [] h.camera = "disposed" -> IF again THEN h ELSE [h EXCEPT !.raised = "TLCameraError"]
      [] OTHER -> [h EXCEPT !.raised = "AttributeError"]

\* reinitialize after dispose_camera_instance has returned: empty the queue,
\* initialize_camera, activate_camera_instance
ReinitializeTail(hs, o) ==
    IF ~hs.h.shared
    THEN [h |-> [hs.h EXCEPT !.raised = "AttributeError"], t |-> hs.t]
    ELSE ActivateCameraInstance(
             InitializeCamera([h |-> [hs.h EXCEPT !.queue = 0], t |-> hs.t], o))

\* ThorlabsCameraHandler.__init__
HConstruct ==
    /\ h_pc = "new"
    /\ \E sh \in BOOLEAN, o \in InitOutcomes :
          /\ OutcomePossible(o)
          /\ LET r == InitializeCamera([h |-> [NoHandler EXCEPT !.shared = sh, !.op = "construct"],
                                        t |-> threads], o)
             IN  handler' = r.h /\ threads' = r.t
    /\ h_pc' = "idle"
    /\ UNCHANGED <<stop_set, camera_present>>
    /\ UNCHANGED HandlerOthers

\* a call of activate_camera_instance()
HActivate ==
    /\ h_pc = "idle"
    /\ LET r == ActivateCameraInstance([h |-> [handler EXCEPT !.raised = "none", !.op = "activate",
                                                            !.tick = ~@],
                                        t |-> threads])
       IN  handler' = r.h /\ threads' = r.t
    /\ UNCHANGED <<h_pc, stop_set, camera_present>>
    /\ UNCHANGED HandlerOthers

\* the first half of dispose_camera_instance(), up to the join(); next is the position
\* the caller waits at
DisposeBegin(next, o, again) ==
    LET h == [handler EXCEPT !.raised = "none", !.tick = ~@,
                             !.op = IF next = "join_reinit" THEN "reinitialize" ELSE "dispose"]
    IN  IF h.is_alive
        THEN IF h.thread = 0
             THEN /\ handler' = [h EXCEPT !.raised = "AttributeError"]
                  /\ UNCHANGED <<h_pc, threads, stop_set>>
             ELSE /\ stop_set' = stop_set \cup {h.thread}
                  /\ IF threads[h.thread] = "new"
                     THEN handler' = [h EXCEPT !.raised = "RuntimeError"] /\ h_pc' = h_pc
                     ELSE handler' = h /\ h_pc' = next
                  /\ UNCHANGED threads
        ELSE LET d == CameraDispose(h, again)
             IN  /\ IF next = "join_reinit" /\ d.raised = "none"
                    THEN LET r == ReinitializeTail([h |-> d, t |-> threads], o)
                         IN  handler' = r.h /\ threads' = r.t
                    ELSE handler' = d /\ threads' = threads
                 /\ UNCHANGED <<h_pc, stop_set>>

\* a call of dispose_camera_instance()
HDispose ==
    /\ h_pc = "idle"
    /\ \E again \in BOOLEAN : DisposeBegin("join_dispose", "error", again)
    /\ UNCHANGED camera_present
    /\ UNCHANGED HandlerOthers

\* a call of reinitialize()
HReinitialize ==
    /\ h_pc = "idle"
    /\ IF ~handler.connected
       THEN /\ handler' = [handler EXCEPT !.raised = "none", !.op = "reinitialize_skipped",
                                            !.tick = ~@]
            /\ UNCHANGED <<h_pc, threads, stop_set>>
       ELSE \E o \in InitOutcomes, again \in BOOLEAN :
               /\ OutcomePossible(o)
               /\ DisposeBegin("join_reinit", o, again)
    /\ UNCHANGED camera_present
    /\ UNCHANGED HandlerOthers

\* image_acquisition_thread.join() returns; the rest of dispose_camera_instance() and,
\* inside reinitialize(), the rest of reinitialize()
HJoinReturn ==
    /\ h_pc \in {"join_dispose", "join_reinit"}
    /\ threads[handler.thread] = "finished"
    /\ \E o \in InitOutcomes, again \in BOOLEAN :
          /\ OutcomePossible(o)
          /\ LET d == CameraDispose([handler EXCEPT !.is_alive = FALSE], again)
             IN  IF h_pc = "join_reinit" /\ d.raised = "none"
                 THEN LET r == ReinitializeTail([h |-> d, t |-> threads], o)
                      IN  handler' = r.h /\ threads' = r.t
                 ELSE handler' = d /\ threads' = threads
    /\ h_pc' = "idle"
    /\ UNCHANGED <<stop_set, camera_present>>
    /\ UNCHANGED HandlerOthers

\* run() of a started thread leaves its loop because its stop event is set
HThreadExitStop ==
    /\ \E t \in ThreadIds :
          /\ threads[t] = "running"
          /\ t \in stop_set
          /\ threads' = [threads EXCEPT ![t] = "finished"]
    /\ UNCHANGED <<h_pc, handler, stop_set, camera_present>>
    /\ UNCHANGED HandlerOthers

\* run() of a started thread leaves its loop on an exception
HThreadExitError ==
    /\ \E t \in ThreadIds :
          /\ threads[t] = "running"
          /\ threads' = [threads EXCEPT ![t] = "finished"]
    /\ UNCHANGED <<h_pc, handler, stop_set, camera_present>>
    /\ UNCHANGED HandlerOthers

\* run() of a started thread puts an image into the shared queue
HThreadEnqueue ==
    /\ \E t \in ThreadIds : threads[t] = "running"
    /\ handler.shared
    /\ handler.queue < InternalMaxsize
    /\ handler' = [handler EXCEPT !.queue = @ + 1]
    /\ UNCHANGED <<h_pc, threads, stop_set, camera_present>>
    /\ UNCHANGED HandlerOthers

\* the consumer takes an image from the shared queue
HConsumerGet ==
    /\ handler.shared
    /\ handler.queue > 0
    /\ handler' = [handler EXCEPT !.queue = @ - 1]
    /\ UNCHANGED <<h_pc, threads, stop_set, camera_present>>
    /\ UNCHANGED HandlerOthers

\* the camera is plugged in or unplugged
CameraChange ==
    /\ camera_present' = ~camera_present
    /\ UNCHANGED <<h_pc, handler, threads, stop_set>>
    /\ UNCHANGED HandlerOthers

(***************************************************************************)
(* ConfigurationManager                                                    *)
(***************************************************************************)

\* Number of writes other programs make to the settings file in a run.
MaxEdits == 1

\* Number of set() calls the caller makes in a run.
MaxSets == 2

\* JSON values: a number, or an object given as a sequence of [k, v] members
JNum(n) == [t |-> "num", n |-> n, m |-> <<>>]
JObj(m) == [t |-> "obj", n |-> 0, m |-> m]

\* the text of a file is a sequence of tokens; "ws" is a line break plus n levels
\* of indentation
Tok(t, str, n) == [t |-> t, s |-> str, n |-> n]
LBrace == Tok("lbrace", "", 0)
RBrace == Tok("rbrace", "", 0)
Colon == Tok("colon", "", 0)
Comma == Tok("comma", "", 0)
Ws(n) == Tok("ws", "", n)

\* dict item assignment (d[k] = v): an existing key keeps its place
PutKey(m, k, v) ==
    IF \E i \in 1..Len(m) : m[i].k = k
    THEN [i \in 1..Len(m) |-> IF m[i].k = k THEN [k |-> k, v |-> v] ELSE m[i]]
    ELSE Append(m, [k |-> k, v |-> v])

RECURSIVE DumpValue(_, _)
RECURSIVE DumpItems(_, _, _)

\* json.dump(..., indent=4) of the members of an object from member i on
DumpItems(m, i, level) ==
    IF i > Len(m)
    THEN <<>>
    ELSE <<Ws(level), Tok("str", m[i].k, 0), Colon>>
         \o DumpValue(m[i].v, level)
         \o (IF i < Len(m) THEN <<Comma>> ELSE <<>>)
         \o DumpItems(m, i + 1, level)

\* json.dump(..., indent=4) of one value
DumpValue(v, level) ==
    IF v.t = "num"
    THEN <<Tok("num", "", v.n)>>
    ELSE IF Len(v.m) = 0
         THEN <<LBrace, RBrace>>
         ELSE <<LBrace>> \o DumpItems(v.m, 1, level + 1) \o <<Ws(level), RBrace>>

\* a dump whose last token never reaches the file
DumpUnflushed(m) ==
    LET d == DumpValue(JObj(m), 0) IN SubSeq(d, 1, Len(d) - 1)

\* json.dump(self.config, f, indent=4)
Dump(m) == DumpValue(JObj(m), 0)

ParseFail == [ok |-> FALSE, val |-> JNum(0), pos |-> 0]

RECURSIVE ParseValue(_, _)
RECURSIVE ParseMembers(_, _, _, _)

\* json.load: the members of an object; a repeated key keeps its last value
ParseMembers(toks, pos, acc, first) ==
    IF pos > Len(toks)
    THEN ParseFail
    ELSE IF first /\ toks[pos].t = "rbrace"
    THEN [ok |-> TRUE, val |-> JObj(acc), pos |-> pos + 1]
    ELSE IF pos + 1 > Len(toks) \/ toks[pos].t # "str" \/ toks[pos + 1].t # "colon"
    THEN ParseFail
    ELSE LET r == ParseValue(toks, pos + 2)
         IN  IF ~r.ok \/ r.pos > Len(toks)
             THEN ParseFail
             ELSE LET acc2 == PutKey(acc, toks[pos].s, r.val)
                  IN  IF toks[r.pos].t = "comma"
                      THEN ParseMembers(toks, r.pos + 1, acc2, FALSE)
                      ELSE IF toks[r.pos].t = "rbrace"
                      THEN [ok |-> TRUE, val |-> JObj(acc2), pos |-> r.pos + 1]
                      ELSE ParseFail

\* json.load: one value starting at token pos
ParseValue(toks, pos) ==
    IF pos > Len(toks)
    THEN ParseFail
    ELSE IF toks[pos].t = "num"
    THEN [ok |-> TRUE, val |-> JNum(toks[pos].n), pos |-> pos + 1]
    ELSE IF toks[pos].t = "lbrace"
    THEN ParseMembers(toks, pos + 1, <<>>, TRUE)
    ELSE ParseFail

IsWs(x) == x.t = "ws"
NotWs(x) == ~IsWs(x)

\* a load that answers a text it cannot parse with the empty map
LoadTextLenient(text) ==
    LET toks == SelectSeq(text, NotWs)
        r == ParseValue(toks, 1)
    IN  IF r.ok /\ r.pos = Len(toks) + 1 /\ r.val.t = "obj"
        THEN [ok |-> TRUE, err |-> "none", val |-> r.val.m]
        ELSE [ok |-> TRUE, err |-> "none", val |-> <<>>]

\* json.load(f) of a whole text (the texts modelled hold an object or are malformed)
LoadText(text) ==
    LET toks == SelectSeq(text, NotWs)
        r == ParseValue(toks, 1)
    IN  IF r.ok /\ r.pos = Len(toks) + 1 /\ r.val.t = "obj"
        THEN [ok |-> TRUE, err |-> "none", val |-> r.val.m]
        ELSE [ok |-> FALSE, err |-> "JSONDecodeError", val |-> <<>>]

\* a load that lets FileNotFoundError through
LoadConfigStrict(f) ==
    IF ~f.exists
    THEN [ok |-> FALSE, err |-> "FileNotFoundError", val |-> <<>>]
    ELSE LoadText(f.text)

\* ConfigurationManager.load_config on file f
LoadConfig(f) ==
    IF ~f.exists
    THEN [ok |-> TRUE, err |-> "none", val |-> <<>>]
    ELSE LoadText(f.text)

MissingFile == [exists |-> FALSE, text |-> <<>>]
TextFile(t) == [exists |-> TRUE, text |-> t]

\* keys and values the caller passes to set()
SetKeys == {"settings", "gain"}
SetValues == {JNum(7), JObj(<<[k |-> "exposureTime_us", v |-> JNum(1000)]>>)}

\* {"settings": {"exposureTime_us": 1000}} as json.dump writes it
SettingsMap == <<[k |-> "settings", v |-> JObj(<<[k |-> "exposureTime_us", v |-> JNum(1000)]>>)]>>

\* texts other programs write: the settings document as json.dump writes it, the
\* same document on one line, and a document cut off after its first key
ExternalTexts ==
    { Dump(SettingsMap),
      SelectSeq(Dump(SettingsMap), NotWs),
      <<LBrace, Ws(1), Tok("str", "settings", 0)>> }

NoLoad == [src |-> "none", clean |-> FALSE, ok |-> TRUE, err |-> "none", val |-> <<>>]
NoSave == [clean |-> FALSE, map |-> <<>>, sets |-> <<>>]

\* the state before ConfigurationManager(...) is called
StoreInit ==
    /\ s_pc = "new"
    /\ cfile \in {MissingFile} \cup {TextFile(t) : t \in ExternalTexts}
    /\ config = <<>>
    /\ w_pc = "none"
    /\ comandosText = <<>>
    /\ file_change = FALSE
    /\ w_stop = FALSE
    /\ loaded = NoLoad
    /\ saved = NoSave
    /\ set_log = <<>>
    /\ detected = FALSE
    /\ edits = 0
    /\ sets = 0

\* ConfigurationManager.__init__ (a parse error leaves __init__ by exception)
SConstruct ==
    /\ s_pc = "new"
    /\ \E watch_file \in BOOLEAN :
          LET r == LoadConfig(cfile)
          IN  IF r.ok
              THEN /\ config' = r.val
                   /\ s_pc' = "ready"
                   /\ w_pc' = IF watch_file THEN "start" ELSE "none"
              ELSE /\ s_pc' = "failed"
                   /\ UNCHANGED <<config, w_pc>>
    /\ file_change' = FALSE
    /\ UNCHANGED <<cfile, comandosText, w_stop, loaded, saved, set_log, detected, edits, sets>>
    /\ UNCHANGED StoreOthers

\* ConfigurationManager.set
SSet ==
    /\ s_pc = "ready"
    /\ sets < MaxSets
    /\ sets' = sets + 1
    /\ \E k \in SetKeys, v \in SetValues :
          /\ config' = PutKey(config, k, v)
          /\ set_log' = [x \in (DOMAIN set_log) \cup {k} |-> IF x = k THEN v ELSE set_log[x]]
    /\ UNCHANGED <<s_pc, cfile, w_pc, comandosText, file_change, w_stop, loaded, saved,
                   detected, edits>>
    /\ UNCHANGED StoreOthers

\* a call of load_config() by the caller
SLoad ==
    /\ s_pc = "ready"
    /\ LET r == LoadConfig(cfile)
       IN  loaded' = [src |-> IF cfile.exists THEN "text" ELSE "missing",
                      clean |-> saved.clean, ok |-> r.ok, err |-> r.err, val |-> r.val]
    /\ UNCHANGED <<s_pc, cfile, config, w_pc, comandosText, file_change, w_stop, saved,
                   set_log, detected, edits, sets>>
    /\ UNCHANGED StoreOthers

\* save_config: open(path, "w") creates or truncates the file
SSaveOpen ==
    /\ s_pc = "ready"
    /\ cfile' = TextFile(<<>>)
    /\ s_pc' = "saving"
    /\ saved' = [saved EXCEPT !.clean = FALSE]
    /\ loaded' = NoLoad
    /\ UNCHANGED <<config, w_pc, comandosText, file_change, w_stop, set_log, detected,
                   edits, sets>>
    /\ UNCHANGED StoreOthers

\* save_config: json.dump(self.config, f, indent=4) and close
SSaveWrite ==
    /\ s_pc = "saving"
    /\ cfile' = TextFile(Dump(config))
    /\ s_pc' = "ready"
    /\ saved' = [clean |-> TRUE, map |-> config, sets |-> set_log]
    /\ UNCHANGED <<config, w_pc, comandosText, file_change, w_stop, loaded, set_log,
                   detected, edits, sets>>
    /\ UNCHANGED StoreOthers

\* ConfigurationManager.stop
SStop ==
    /\ s_pc \in {"ready", "saving", "joining"}
    /\ w_pc # "none"
    /\ w_stop' = TRUE
    /\ UNCHANGED <<s_pc, cfile, config, w_pc, comandosText, file_change, loaded, saved,
                   set_log, detected, edits, sets>>
    /\ UNCHANGED StoreOthers

\* ConfigurationManager.join is entered: config_watcher_thread.join() blocks
SJoinCall ==
    /\ s_pc = "ready"
    /\ w_pc # "none"
    /\ s_pc' = "joining"
    /\ UNCHANGED <<cfile, config, w_pc, comandosText, file_change, w_stop, loaded, saved,
                   set_log, detected, edits, sets>>
    /\ UNCHANGED StoreOthers

\* config_watcher_thread.join() returns once fileWatcher has ended (by return or by
\* an exception)
SJoinReturn ==
    /\ s_pc = "joining"
    /\ w_pc \in {"done", "crashed"}
    /\ s_pc' = "joined"
    /\ UNCHANGED <<cfile, config, w_pc, comandosText, file_change, w_stop, loaded, saved,
                   set_log, detected, edits, sets>>
    /\ UNCHANGED StoreOthers

\* another program writes the file
ExtWrite ==
    /\ edits < MaxEdits
    /\ \E t \in ExternalTexts : cfile' = TextFile(t)
    /\ edits' = edits + 1
    /\ saved' = [saved EXCEPT !.clean = FALSE]
    /\ loaded' = NoLoad
    /\ UNCHANGED <<s_pc, config, w_pc, comandosText, file_change, w_stop, set_log,
                   detected, sets>>
    /\ UNCHANGED StoreOthers

\* another program deletes the file
ExtDelete ==
    /\ edits < MaxEdits
    /\ cfile.exists
    /\ cfile' = MissingFile
    /\ edits' = edits + 1
    /\ saved' = [saved EXCEPT !.clean = FALSE]
    /\ loaded' = NoLoad
    /\ UNCHANGED <<s_pc, config, w_pc, comandosText, file_change, w_stop, set_log,
                   detected, sets>>
    /\ UNCHANGED StoreOthers

\* fileWatcher: the first open/read before the loop
WStart ==
    /\ w_pc = "start"
    /\ IF cfile.exists
       THEN comandosText' = cfile.text /\ w_pc' = "check"
       ELSE comandosText' = comandosText /\ w_pc' = "crashed"
    /\ UNCHANGED <<s_pc, cfile, config, file_change, w_stop, loaded, saved, set_log,
                   detected, edits, sets>>
    /\ UNCHANGED StoreOthers

\* a loop that never looks at the stop event
WCheckNoStop ==
    /\ w_pc = "check"
    /\ w_pc' = "read"
    /\ UNCHANGED <<s_pc, cfile, config, comandosText, file_change, w_stop, loaded, saved,
                   set_log, detected, edits, sets>>
    /\ UNCHANGED StoreOthers

\* fileWatcher: while not self.stop_event.is_set()
WCheck ==
    /\ w_pc = "check"
    /\ w_pc' = IF w_stop THEN "done" ELSE "read"
    /\ UNCHANGED <<s_pc, cfile, config, comandosText, file_change, w_stop, loaded, saved,
                   set_log, detected, edits, sets>>
    /\ UNCHANGED StoreOthers

\* fileWatcher: open/read the file and compare with comandosText
WRead ==
    /\ w_pc = "read"
    /\ IF ~cfile.exists
       THEN /\ w_pc' = "crashed"
            /\ UNCHANGED <<comandosText, detected>>
       ELSE IF cfile.text # comandosText
       THEN /\ comandosText' = cfile.text
            /\ detected' = TRUE
            /\ w_pc' = "reload"
       ELSE /\ w_pc' = "sleep"
            /\ UNCHANGED <<comandosText, detected>>
    /\ UNCHANGED <<s_pc, cfile, config, file_change, w_stop, loaded, saved, set_log, edits, sets>>
    /\ UNCHANGED StoreOthers

RECURSIVE UpdateFrom(_, _, _)

\* dict.update: the members of add from member i on, put into m
UpdateFrom(m, add, i) ==
    IF i > Len(add) THEN m ELSE UpdateFrom(PutKey(m, add[i].k, add[i].v), add, i + 1)

\* a reload that merges the file into the map instead of replacing the map
WReloadMerge ==
    /\ w_pc = "reload"
    /\ LET r == LoadConfig(cfile)
       IN  IF r.ok
           THEN config' = UpdateFrom(config, r.val, 1) /\ set_log' = <<>> /\ w_pc' = "setflag"
           ELSE w_pc' = "crashed" /\ UNCHANGED <<config, set_log>>
    /\ UNCHANGED <<s_pc, cfile, comandosText, file_change, w_stop, loaded, saved,
                   detected, edits, sets>>
    /\ UNCHANGED StoreOthers

\* fileWatcher: self.config = self.load_config() (an exception ends the thread)
WReload ==
    /\ w_pc = "reload"
    /\ LET r == LoadConfig(cfile)
       IN  IF r.ok
           THEN config' = r.val /\ set_log' = <<>> /\ w_pc' = "setflag"
           ELSE w_pc' = "crashed" /\ UNCHANGED <<config, set_log>>
    /\ UNCHANGED <<s_pc, cfile, comandosText, file_change, w_stop, loaded, saved,
                   detected, edits, sets>>
    /\ UNCHANGED StoreOthers

\* fileWatcher: self.file_change = True
WSetFlag ==
    /\ w_pc = "setflag"
    /\ file_change' = TRUE
    /\ w_pc' = "sleep"
    /\ UNCHANGED <<s_pc, cfile, config, comandosText, w_stop, loaded, saved, set_log,
                   detected, edits, sets>>
    /\ UNCHANGED StoreOthers

\* fileWatcher: time.sleep(self.file_watcher_delay) returns
WSleep ==
    /\ w_pc = "sleep"
    /\ w_pc' = "clear"
    /\ UNCHANGED <<s_pc, cfile, config, comandosText, file_change, w_stop, loaded, saved,
                   set_log, detected, edits, sets>>
    /\ UNCHANGED StoreOthers

\* fileWatcher: self.file_change = False, the end of the cycle
WClear ==
    /\ w_pc = "clear"
    /\ file_change' = FALSE
    /\ detected' = FALSE
    /\ w_pc' = "check"
    /\ UNCHANGED <<s_pc, cfile, config, comandosText, w_stop, loaded, saved, set_log, edits, sets>>
    /\ UNCHANGED StoreOthers

\* one step of fileWatcher
WatcherStep ==
    \/ WStart
    \/ WCheck
    \/ WRead
    \/ WReload
    \/ WSetFlag
    \/ WSleep
    \/ WClear

\* the store as the other specifications leave it: never built, no file
StoreQuiet ==
    /\ StoreInit
    /\ cfile = MissingFile

StoreNext ==
    \/ SConstruct
    \/ SSet
    \/ SLoad
    \/ SSaveOpen
    \/ SSaveWrite
    \/ SStop
    \/ SJoinCall
    \/ SJoinReturn
    \/ ExtWrite
    \/ ExtDelete
    \/ WatcherStep

\* the acquisition thread as Spec starts it: constructed, not yet started
AcqQuiet ==
    /\ AcqInit
    /\ ~shared_queue
    /\ ~signal
    /\ ~is_color

\* the handler as the acquisition thread's own specification leaves it: never built
HandlerQuiet ==
    /\ HandlerInit
    /\ ~camera_present

HandlerNext ==
    \/ HConstruct
    \/ HActivate
    \/ HDispose
    \/ HReinitialize
    \/ HJoinReturn
    \/ HThreadExitStop
    \/ HThreadExitError
    \/ HThreadEnqueue
    \/ HConsumerGet
    \/ CameraChange

HandlerSpecInit == HandlerInit /\ AcqQuiet /\ StoreQuiet

HandlerSpec == HandlerSpecInit /\ [][HandlerNext]_vars

StoreSpecInit == StoreInit /\ AcqQuiet /\ HandlerQuiet

StoreSpec == StoreSpecInit /\ [][StoreNext]_vars

\* the watcher with a caller that saves, stops and joins, and other programs that
\* write or delete the file
WatchNext ==
    \/ SConstruct
    \/ SSaveOpen
    \/ SSaveWrite
    \/ SStop
    \/ SJoinCall
    \/ SJoinReturn
    \/ ExtWrite
    \/ ExtDelete
    \/ WatcherStep

\* the scheduler runs the watcher thread, and a blocked join() returns once it can
WatchFairSpec ==
    StoreSpecInit /\ [][WatchNext]_vars /\ WF_vars(WatcherStep) /\ WF_vars(SJoinReturn)

Init == AcqInit /\ HandlerQuiet /\ StoreQuiet

Next ==
    \/ Start
    \/ ThreadStep
    \/ Stop
    \/ JoinCall
    \/ JoinReturn
    \/ ConsumerGet

Spec == Init /\ [][Next]_vars

\* the thread with its own capacity-2 queue and a signal object, read by the
\* notified consumer
PairInit ==
    /\ Init
    /\ ~shared_queue
    /\ signal

PairNext ==
    \/ Start
    \/ ThreadStep
    \/ PairConsumerGet

PairSpec == PairInit /\ [][PairNext]_vars

\* the scheduler runs a started thread, and a blocked join() returns once it can
FairSpec == Spec /\ WF_vars(ThreadStep) /\ WF_vars(JoinReturn)

(***************************************************************************)
(* Properties of the acquisition loop                                      *)
(***************************************************************************)

\* the frame numbers of a sequence of images
Frames(q) == [i \in 1..Len(q) |-> q[i].f]

\* positions of the log holding an event of kind e
Events(e) == {i \in 1..Len(log) : log[i].ev = e}

\* the last position before i holding an event of one of the kinds R (0 if none)
LastOf(i, R) ==
    LET S == {j \in 1..(i - 1) : log[j].ev \in R}
    IN  IF S = {} THEN 0 ELSE CHOOSE j \in S : \A k \in S : k <= j

\* successful enqueues up to and including position i since the last event of a kind in R
EnqSince(i, R) == Cardinality({j \in (LastOf(i, R) + 1)..i : log[j].ev = "enq"})

\* the enqueue at position i is followed at once by the call of emit
Fires(i) ==
    \/ i < Len(log) /\ log[i + 1].ev = "emit"
    \/ i = Len(log) /\ tpc = "emit"

\* emit is called exactly at the enqueues that are the second one since an event in R
PairPattern(R) ==
    /\ \A i \in Events("enq") : Fires(i) <=> (EnqSince(i, R) = 2)
    /\ \A i \in Events("emit") : i > 1 /\ log[i - 1].ev = "enq"

\* C1: with the internally owned queue (capacity 2) the queue never holds more than
\* 2 images, in any interleaving of loop iterations and consumer dequeues.
C1_QueueBounded ==
    ~shared_queue => (maxsize = InternalMaxsize /\ Len(image_queue) <= InternalMaxsize)

C1_Witness ==
    /\ ~shared_queue
    /\ Len(image_queue) = InternalMaxsize
    /\ Events("drop") # {}
    /\ consumed # <<>>

\* C2 as stated: the notification fires exactly at each successful enqueue that is the
\* second successful enqueue since the previous notification or since start; dropped
\* enqueues in between do not change which enqueue fires it.
C2_Original == signal => PairPattern({"emit"})

\* C2 as amended: the notification fires exactly at each successful enqueue that is the
\* second successful enqueue since the previous notification, the previous dropped
\* enqueue or start (a drop resets the pairing), and at no other time; without a
\* signal object nothing is emitted.
C2_PairAfterReset ==
    /\ signal => PairPattern({"emit", "drop"})
    /\ ~signal => Events("emit") = {}

C2_Witness ==
    /\ signal
    /\ \E i \in Events("enq") :
          /\ EnqSince(i, {"emit"}) = 2
          /\ EnqSince(i, {"emit", "drop"}) = 1
          /\ \E k \in Events("emit") : k > i

\* C3: an enqueue attempted on a full queue leaves the queue's contents and order
\* unchanged, the loop goes on to its next iteration without emitting, and the
\* pairing counter is 0 afterwards.
C3_DropOnFull ==
    [][(tpc = "put" /\ tpc' # "put" /\ maxsize > 0 /\ Len(image_queue) >= maxsize)
         => /\ image_queue' = image_queue
            /\ nr' = 0
            /\ tpc' = "check"
            /\ exitCause' = exitCause
            /\ Len(log') = Len(log) + 1
            /\ log'[Len(log')].ev = "drop"
            /\ consumed' = consumed]_vars

C3_Witness ==
    /\ Len(log) > 0
    /\ log[Len(log)].ev = "drop"
    /\ tpc = "check"
    /\ nr = 0
    /\ Len(image_queue) = maxsize

\* C4: capacity 2, frames 1..5 polled in order, the consumer never dequeues: after the
\* five attempts the queue is [1, 2], and emit was called once, at the enqueue of 2.
C4_Scenario ==
    (/\ maxsize = 2
     /\ signal
     /\ consumed = <<>>
     /\ Cardinality(Events("enq") \cup Events("drop")) = 5)
    => /\ Frames(image_queue) = <<1, 2>>
       /\ log = << [ev |-> "enq", f |-> 1], [ev |-> "enq", f |-> 2],
                   [ev |-> "emit", f |-> 2], [ev |-> "drop", f |-> 3],
                   [ev |-> "drop", f |-> 4], [ev |-> "drop", f |-> 5] >>

C4_Witness ==
    /\ maxsize = 2
    /\ signal
    /\ consumed = <<>>
    /\ Cardinality(Events("enq") \cup Events("drop")) = 5
    /\ Frames(image_queue) = <<1, 2>>
    /\ Cardinality(Events("emit")) = 1

\* C5: stop() only sets the stop event and can always be called; once it is set the
\* loop makes at most one more poll, the thread terminates, and a join() returns.
C5_StopTerminates ==
    /\ [][stop_event' # stop_event =>
            (stop_event' = TRUE /\ UNCHANGED <<tpc, nr, frame, pil_image, image_queue,
                 maxsize, shared_queue, signal, is_color, processor, color_sdk, polled,
                 log, consumed, exitCause, jpc, pollsAfterStop>>)]_vars
    /\ [](ENABLED Stop)
    /\ [](pollsAfterStop <= 1)
    /\ ((stop_event /\ tpc # "new") ~> (tpc = "done"))
    /\ ((stop_event /\ jpc = "joining") ~> (jpc = "joined"))

C5_Witness ==
    /\ jpc = "joined"
    /\ exitCause = "stop"
    /\ pollsAfterStop = 1
    /\ maxsize > 0
    /\ Len(image_queue) = maxsize
    /\ consumed = <<>>

\* C6: when the thread has terminated, whatever made the loop exit, the colour
\* processor and its SDK have been disposed; neither is disposed while the loop runs.
C6_ResourcesReleased ==
    /\ tpc = "done" => (processor # "live" /\ color_sdk # "live")
    /\ (tpc = "done" /\ is_color) => (processor = "disposed" /\ color_sdk = "disposed")
    /\ tpc \in {"new", "check", "poll", "convert", "put", "emit"}
          => (processor # "disposed" /\ color_sdk # "disposed")

C6_Witness ==
    /\ tpc = "done"
    /\ is_color
    /\ exitCause = "error"
    /\ Events("drop") # {}
    /\ processor = "disposed"
    /\ color_sdk = "disposed"

(***************************************************************************)
(* Order of delivery                                                       *)
(***************************************************************************)

\* the frames of the successful enqueues, in the order they were made
Enqueued == Frames(SelectSeq(log, LAMBDA e : e.ev = "enq"))

\* s lists frames the camera has handed out, in poll order, none of them twice
InPollOrder(s) ==
    /\ \A i \in 1..Len(s) : s[i] \in 1..polled
    /\ \A i, j \in 1..Len(s) : i < j => s[i] < s[j]

\* C12: the images taken by the readers followed by the images in the queue are the
\* enqueued frames in the order they were enqueued, which is poll order with no frame
\* twice; every enqueued image that has left the queue was handed to exactly one reader.
C12_PollOrder ==
    /\ Frames(consumed) \o Frames(image_queue) = Enqueued
    /\ InPollOrder(Enqueued)
    /\ InPollOrder(Frames(consumed))
    /\ InPollOrder(Frames(image_queue))
    /\ \A i \in 1..Len(consumed) :
          /\ consumed[i].by \in Readers
          /\ Cardinality({j \in 1..Len(consumed) : consumed[j].f = consumed[i].f}) = 1

C12_Witness ==
    /\ Len(consumed) >= 3
    /\ {consumed[i].by : i \in 1..Len(consumed)} = Readers
    /\ Events("drop") # {}
    /\ image_queue # <<>>


(***************************************************************************)
(* Errors in the loop                                                      *)
(***************************************************************************)

\* the loop was left because the conversion of the frame just polled raised
ConversionFailed == exitCause = "error" /\ frame # 0 /\ pil_image.f # frame

\* the positions of run() inside the loop
InLoop == tpc \in {"check", "poll", "convert", "put", "emit"}

\* C13: an error raised by the poll or by the conversion ends the loop in that step
\* without an enqueue or a notification and without touching the caller's state; once
\* the loop has ended on an error it is never re-entered, nothing more is enqueued or
\* emitted, a frame whose conversion failed is in no enqueue attempt, and the thread
\* goes on to terminate (run() returns, so the caller sees only a dead thread).
C13_FailStop ==
    /\ [][(tpc \in {"poll", "convert"} /\ exitCause = "none" /\ exitCause' = "error")
            => (~InLoop' /\ log' = log /\ image_queue' = image_queue
                /\ stop_event' = stop_event /\ jpc' = jpc /\ consumed' = consumed)]_vars
    /\ [][(exitCause = "error")
            => (exitCause' = "error" /\ ~InLoop' /\ log' = log /\ polled' = polled
                /\ Len(image_queue') <= Len(image_queue))]_vars
    /\ [](ConversionFailed => \A i \in 1..Len(log) : log[i].f # frame)
    /\ ((exitCause = "error") ~> (tpc = "done"))

C13_Witness ==
    /\ ConversionFailed
    /\ tpc = "done"
    /\ jpc = "joined"
    /\ ~stop_event
    /\ Events("emit") # {}
    /\ image_queue # <<>>

(***************************************************************************)
(* The notified consumer                                                   *)
(***************************************************************************)

\* the loop is running with a full queue, a pairing counter of 0 and no notification
\* left for the consumer to act on: every further frame is dropped and resets the
\* counter, so no notification follows
Stalled ==
    /\ tpc \in {"check", "poll"}
    /\ ~stop_event
    /\ exitCause = "none"
    /\ Len(image_queue) = maxsize
    /\ nr = 0
    /\ Owed = 0

\* C18: with a consumer that takes two images per notification, the state "queue
\* full, pairing counter 0, no undelivered notification" is never reached.
C18_NeverStalls == ~Stalled

(***************************************************************************)
(* Properties of the handler                                               *)
(***************************************************************************)

\* C7 (second half): after an initialization that found no camera no acquisition
\* thread is running, whatever handler operation follows.
C7_PipelineNotStarted ==
    handler.init_result = "not_found" => \A t \in ThreadIds : threads[t] # "running"

\* C7: when initialization finds no camera, the caller is handed a distinguished
\* device-not-found error, the handler is not connected, and no acquisition thread is
\* running, whatever handler operation follows.
C7_NotFoundSurfaced ==
    handler.init_result = "not_found" =>
        /\ handler.surfaced = "CameraNotFoundError"
        /\ ~handler.connected
        /\ \A t \in ThreadIds : threads[t] # "running"

\* ThorlabsCameraHandler.camera_state
CameraState == handler.is_alive

\* C19: camera_state is true only while the handler's acquisition thread is running.
C19_StateTracksThread ==
    CameraState => (handler.thread # 0 /\ threads[handler.thread] = "running")

\* the handler is at rest, its thread has left the loop on an error without ever
\* being asked to stop, and camera_state still reads true
C19_AliveAfterError ==
    /\ h_pc = "idle"
    /\ CameraState
    /\ handler.thread # 0
    /\ threads[handler.thread] = "finished"
    /\ handler.thread \notin stop_set
    /\ handler.raised = "none"

\* start() was called on a thread object that had been started before
StartedTwice == handler.raised = "RuntimeError" /\ threads[handler.thread] # "new"

\* a call of reinitialize() on a connected handler ends in this step (by return or
\* by an exception)
ReinitializeEnds ==
    /\ h_pc' = "idle"
    /\ handler'.op = "reinitialize"
    /\ (h_pc = "join_reinit" \/ handler'.tick # handler.tick)

\* C20: start() is never called on a thread object that was started before, and every
\* reinitialize() on a connected handler ends without an exception, with the old
\* thread not running, the image queue empty, and a thread object created by this
\* call running.
C20_ReinitializeFresh ==
    /\ [](~StartedTwice)
    /\ [][ReinitializeEnds
            => (/\ handler'.raised = "none"
                /\ handler'.queue = 0
                /\ handler'.thread # 0
                /\ threads[handler'.thread] = "unborn"
                /\ threads'[handler'.thread] = "running"
                /\ (handler.thread # 0 => threads'[handler.thread] # "running"))]_vars

\* reinitialize() has ended with start() called again on the thread that was joined
C20_OldThreadRestarted ==
    /\ handler.op = "reinitialize"
    /\ h_pc = "idle"
    /\ StartedTwice
    /\ threads[handler.thread] = "finished"

\* reinitialize() has ended in with self.shared_queue.mutex on a handler built
\* without a shared queue: the camera is disposed and no thread runs
C20_NoQueueNoThread ==
    /\ handler.op = "reinitialize"
    /\ h_pc = "idle"
    /\ ~handler.shared
    /\ handler.raised = "AttributeError"
    /\ handler.camera = "disposed"
    /\ \A t \in ThreadIds : threads[t] # "running"

(***************************************************************************)
(* Properties of the settings store                                        *)
(***************************************************************************)

Absent == [t |-> "absent", n |-> 0, m |-> <<>>]

\* dict.get(k) on a map given as a sequence of members
Lookup(m, k) ==
    IF \E i \in 1..Len(m) : m[i].k = k
    THEN m[CHOOSE i \in 1..Len(m) : m[i].k = k].v
    ELSE Absent

\* C8: load_config() on a file that does not exist returns the empty map and raises
\* nothing, and a store constructed on a missing file holds the empty map.
C8_MissingFileEmpty ==
    /\ [](loaded.src = "missing" => (loaded.ok /\ loaded.err = "none" /\ loaded.val = <<>>))
    /\ [][(s_pc = "new" /\ s_pc' # "new" /\ ~cfile.exists)
            => (s_pc' = "ready" /\ config' = <<>>)]_vars

C8_Witness ==
    /\ s_pc = "ready"
    /\ ~cfile.exists
    /\ edits = 0
    /\ saved = NoSave
    /\ sets = 0
    /\ config = <<>>
    /\ loaded.src = "missing"
    /\ loaded.val = <<>>

C10_FlagWindow ==
    /\ (detected /\ w_pc \notin {"reload", "setflag"}) => file_change
    /\ ~detected => ~file_change

\* the same window, in the runs where the reload after a detected change returns
C10_FlagWindowUnlessCrashed ==
    /\ (detected /\ w_pc \notin {"reload", "setflag", "crashed"}) => file_change
    /\ ~detected => ~file_change

\* C11: stop() changes nothing but the stop event; once it is set the watcher sleeps
\* at most once more (after a sleep that ends with the event set it only clears the
\* flag, tests the event and returns) and then terminates, so that a join() returns; a terminated
\* watcher stays terminated, and from then on neither the flag nor the map changes
\* (the caller makes no set() call in these runs).
C11_StopWatch ==
    /\ [][w_stop' # w_stop =>
            (w_stop' = TRUE /\ UNCHANGED <<s_pc, cfile, config, w_pc, comandosText,
                                           file_change, loaded, saved, set_log, detected,
                                           edits, sets>>)]_vars
    /\ [][(w_stop /\ w_pc \in {"clear", "check", "done"})
            => (w_pc' \in {"clear", "check", "done"})]_vars
    /\ ((w_stop /\ w_pc # "none") ~> (w_pc \in {"done", "crashed"}))
    /\ ((w_stop /\ s_pc = "joining") ~> (s_pc = "joined"))
    /\ [][(w_pc \in {"done", "crashed"}) => (w_pc' = w_pc /\ file_change' = file_change)]_vars
    /\ [][(w_pc \in {"done", "crashed"}) => config' = config]_vars

C11_Witness ==
    /\ w_stop
    /\ w_pc = "done"
    /\ s_pc = "joined"
    /\ edits > 0
    /\ saved.clean

\* ConfigurationManager.get
Get(k) == Lookup(config, k)

\* C14: while no other program has written the file, get(k) returns the value last
\* given to k by set(): it does so after every set(), and no step that is not a set()
\* (a save, a watcher step) changes what get(k) returns for a key that was set.
C14_SourceOfTruth ==
    /\ [](edits = 0 => \A k \in DOMAIN set_log : Get(k) = set_log[k])
    /\ [][(edits' = 0 /\ sets' = sets)
            => \A k \in DOMAIN set_log : Lookup(config', k) = set_log[k]]_vars

\* the same for a store that was built without the watcher
C14_SourceOfTruthNoWatcher ==
    /\ []((edits = 0 /\ w_pc = "none") => \A k \in DOMAIN set_log : Get(k) = set_log[k])
    /\ [][(edits' = 0 /\ sets' = sets /\ w_pc = "none")
            => \A k \in DOMAIN set_log : Lookup(config', k) = set_log[k]]_vars

\* the keys of a map
Keys(m) == {m[i].k : i \in 1..Len(m)}

\* C15: the watcher goes on to a reload exactly when the text of the file differs from
\* the text it saw last (a file rewritten with the same text is not reloaded) and then
\* remembers the new text; a reload that returns leaves the map equal to the parse of
\* the file, with exactly the file's keys (a file that save_config() wrote gives back
\* the map that was saved); the watcher changes the map in no other step.
C15_ContentDiffReload ==
    /\ [][(w_pc = "read" /\ w_pc' # "read")
            => /\ (w_pc' = "reload") <=> (cfile.exists /\ cfile.text # comandosText)
               /\ (w_pc' = "reload") => (comandosText' = cfile.text)
               /\ config' = config]_vars
    /\ [][(w_pc = "reload" /\ w_pc' = "setflag")
            => /\ cfile.exists => [ok |-> TRUE, err |-> "none", val |-> config'] = LoadText(cfile.text)
               /\ ~cfile.exists => config' = <<>>
               /\ saved.clean => config' = saved.map
               /\ \A k \in Keys(config) \cup SetKeys :
                     Lookup(config', k) =
                        (IF cfile.exists THEN Lookup(LoadText(cfile.text).val, k) ELSE Absent)]_vars
    /\ [][(config' # config /\ sets' = sets /\ s_pc # "new") => w_pc = "reload"]_vars

C15_Witness ==
    /\ w_pc = "setflag"
    /\ edits > 0
    /\ config = SettingsMap
    /\ Lookup(saved.map, "gain") # Absent
    /\ Get("gain") = Absent

\* the number of tokens of kind t in a text
Count(text, t) == Cardinality({i \in 1..Len(text) : text[i].t = t})

\* a text that is no JSON document: empty, or with a brace left open
Malformed(text) == text = <<>> \/ Count(text, "lbrace") # Count(text, "rbrace")

\* C16: a load of a malformed file ends with JSONDecodeError and never with a map: a
\* load_config() call hands the error to its caller, a constructor call fails and
\* builds no store, and a reload by the watcher raises in the watcher and leaves the
\* map as it was.
C16_MalformedSurfaced ==
    /\ []((loaded.src = "text" /\ Malformed(cfile.text))
            => (~loaded.ok /\ loaded.err = "JSONDecodeError"))
    /\ [][(s_pc = "new" /\ s_pc' # "new" /\ cfile.exists /\ Malformed(cfile.text))
            => (s_pc' = "failed" /\ config' = config /\ w_pc' = "none")]_vars
    /\ [][(w_pc = "reload" /\ w_pc' # "reload" /\ cfile.exists /\ Malformed(cfile.text))
            => (w_pc' = "crashed" /\ config' = config)]_vars

C16_Witness ==
    /\ w_pc = "crashed"
    /\ detected
    /\ cfile.exists
    /\ Malformed(cfile.text)
    /\ edits > 0
    /\ config # <<>>
    /\ loaded.src = "text"
    /\ loaded.err = "JSONDecodeError"

\* C17: the watcher thread has ended only if stop() was called, and no reload installs
\* a map while a save_config() is between its truncation and its write.
C17_WatcherRunsUntilStop ==
    /\ [](w_pc \in {"done", "crashed"} => w_stop)
    /\ [][(w_pc = "reload" /\ w_pc' = "setflag") => s_pc # "saving"]_vars

\* the watcher ended by an exception although nobody but the caller's own
\* save_config() has written the file
C17_EndedBySave == w_pc = "crashed" /\ ~w_stop /\ edits = 0 /\ detected

\* the watcher ended by an exception at its first read: the store was built on a
\* missing file
C17_EndedAtStart == w_pc = "crashed" /\ ~w_stop /\ edits = 0 /\ ~cfile.exists /\ saved = NoSave

====
